---- MODULE Spec2Model ----
(***************************************************************************)
(* The command relay of src/index.js: the in-memory command queue, the     *)
(* call/await bridge (enqueueCommand, waitForResult, studioCall) and the   *)
(* two plugin endpoints (GET /studio/poll, POST /studio/result).           *)
(*                                                                         *)
(* src/index.js holds two variants of the program one after the other      *)
(* (lines 1-180 and 182-446).  Their relay code is the same statement for  *)
(* statement; they differ in the text of the timeout message and in the   *)
(* tool list.  The model follows the first variant.                        *)
(*                                                                         *)
(* Node runs every callback to completion, so each handler and each firing *)
(* of a waiter's interval timer is one atomic action.  An interval timer   *)
(* is taken to fire on schedule: at its k-th firing Date.now() - start is  *)
(* k * IntervalMs.                                                         *)
(***************************************************************************)
EXTENDS Integers, Sequences, FiniteSets, TLC

\* ------------------------------------------------------------- bounds
\* Number of studioCall invocations (tool requests) in a behaviour.
MaxCalls == 2
\* Timeout budgets of SpecTimeout, in half polling intervals: 0 .. this many.
MaxTimeoutHalfIntervals == 3
\* Number of studioCall invocations in a behaviour of SpecQueue.
MaxQueueCalls == 3

\* -------------------------------------------------- program constants
\* setInterval(..., 200)
IntervalMs == 200
\* waitForResult(id, timeoutMs = 30000)
DefaultTimeoutMs == 30000

Calls == 1 .. MaxCalls
QueueCalls == 1 .. MaxQueueCalls
AllCalls == Calls \cup QueueCalls
\* Ids a completion may name: every id that can be issued, and one that never is.
PostIds == 1 .. (MaxCalls + 1)
QueuePostIds == 1 .. (MaxQueueCalls + 1)
AllIds == PostIds \cup QueuePostIds
\* studioCall passes no timeout, so the program waits DefaultTimeoutMs, 150
\* polling intervals.  Spec shortens the budget to keep concurrent waiters
\* tractable (one polling interval); SpecTimeout runs one call on the default and on short budgets.
RelayTimeoutMs == IntervalMs
\* The calls of SpecQueue time out at the first firing of their timer.
QueueTimeoutMs == IntervalMs \div 2
TimeoutChoices ==
    { (k * IntervalMs) \div 2 : k \in 0 .. MaxTimeoutHalfIntervals } \cup { DefaultTimeoutMs }

\* ------------------------------------------------------- JSON values
\* A field that is not there (JavaScript reads it as undefined).
Absent == "-"
\* Payloads are null, undefined or an object with the fields the program
\* reads (error, source) and one more (output).
JNull == [kind |-> "null", error |-> Absent, output |-> Absent, source |-> Absent]
JUndefined == [kind |-> "undefined", error |-> Absent, output |-> Absent, source |-> Absent]
JObject(e, o, s) == [kind |-> "object", error |-> e, output |-> o, source |-> s]

\* JavaScript truthiness of a string-or-undefined field and of a payload.
TruthyText(s) == s \notin {Absent, ""}
TruthyValue(v) == v.kind = "object"

\* The bodies of POST /studio/result, the id apart.  Spec posts a result
\* payload {"output": "2"} or an error description; SpecPayload and
\* SpecTimeout also post a result payload that itself has an error field.
RelayBodies ==
    { [result |-> JObject(Absent, "2", Absent), error |-> Absent],
      [result |-> JUndefined, error |-> "boom"] }
BodyChoices ==
    RelayBodies \cup { [result |-> JObject("inner failure", Absent, Absent), error |-> Absent] }

\* The bodies SpecScript posts: the payloads {} and {"source": "print(1)"},
\* the payload null, a body with neither result nor error, and an error.
ScriptBodies ==
    { [result |-> JObject(Absent, Absent, Absent), error |-> Absent],
      [result |-> JObject(Absent, Absent, "print(1)"), error |-> Absent],
      [result |-> JNull, error |-> Absent],
      [result |-> JUndefined, error |-> Absent],
      [result |-> JUndefined, error |-> "boom"] }

Tools == { "run_script", "get_script" }
\* The relay never reads tool or args; the calls of Spec are all run_script.
RelayTools == { "run_script" }
ArgsOf(tool) ==
    IF tool = "run_script"
    THEN { [code |-> "return 1+1", context |-> "Plugin", path |-> Absent] }
    ELSE { [code |-> Absent, context |-> Absent, path |-> "game.X"] }

\* ------------------------------------------------ tool registrations
\* The argument schemas of server.tool("run_script", ...) and
\* server.tool("get_script", ...).  The protocol layer parses the arguments
\* of a request with the registered schema and calls the handler with the
\* parsed arguments, or answers with an error without calling it.
\* z.enum(["Server", "Client", "Plugin"])
ContextValues == { "Server", "Client", "Plugin" }
\* .default("Plugin")
DefaultContext == "Plugin"
\* What a request may carry as raw arguments: the arguments of ArgsOf, the
\* context left out, the code left out, a context outside the enum; the
\* path, or no path.
RawArgsOf(tool) ==
    IF tool = "run_script"
    THEN { [code |-> "return 1+1", context |-> "Plugin", path |-> Absent],
           [code |-> "return 1+1", context |-> Absent, path |-> Absent],
           [code |-> Absent, context |-> "Plugin", path |-> Absent],
           [code |-> "return 1+1", context |-> "Studio", path |-> Absent] }
    ELSE { [code |-> Absent, context |-> Absent, path |-> "game.X"],
           [code |-> Absent, context |-> Absent, path |-> Absent] }
\* The code field declared z.string().optional(): a request without code passes.
ValidArgsCodeOptional(tool, raw) ==
    IF tool = "run_script"
    THEN raw.context = Absent \/ raw.context \in ContextValues
    ELSE raw.path # Absent
\* z.string() rejects a missing field; z.enum(...).default(...) accepts a
\* missing field and rejects a value outside the enum.
ValidArgs(tool, raw) ==
    IF tool = "run_script"
    THEN /\ raw.code # Absent
         /\ raw.context = Absent \/ raw.context \in ContextValues
    ELSE raw.path # Absent
\* The parsed arguments, as the handler passes them to studioCall:
\* { code, context } with the default filled in, or { path }.
ParseArgs(tool, raw) ==
    IF tool = "run_script"
    THEN [code |-> raw.code,
          context |-> IF raw.context = Absent THEN DefaultContext ELSE raw.context,
          path |-> Absent]
    ELSE [code |-> Absent, context |-> Absent, path |-> raw.path]

TimeoutMessage == "Timeout - Is the Roblox Studio plugin running?"
NotFoundMessage == "Command not found"

\* -------------------------------------------------------------- state
VARIABLES
    commandQueue,       \* let commandQueue = []
    commandIdCounter,   \* let commandIdCounter = 0
    calls,              \* the studioCall invocations, and their waiters
    httpResponse,       \* what the step just taken answered to the plugin
    pollCount,          \* history: id -> number of polls that returned it
    firstCompletion     \* history (SpecH, SpecPayload): id -> body of the first completion
                        \* that found the record live

vars == << commandQueue, commandIdCounter, calls, httpResponse, pollCount, firstCompletion >>

NoBody == [result |-> JUndefined, error |-> "<none posted>"]
NoResponse == [route |-> "none", list |-> << >>]
NoArgs == [code |-> Absent, context |-> Absent, path |-> Absent]
PendingPromise == [state |-> "pending", value |-> JNull, reason |-> Absent]
\* The response of a tool handler: a text content, or an error message.
NoReply == [isError |-> FALSE, text |-> Absent]
IdleCall ==
    [pc |-> "idle", id |-> 0, tool |-> Absent, args |-> NoArgs,
     timeoutMs |-> 0, elapsed |-> 0, interval |-> FALSE,
     promise |-> PendingPromise, value |-> JNull, message |-> Absent,
     reply |-> NoReply]

\* --------------------------------------------------- sequence helpers
\* Array.prototype.find on the id: the first record with that id, if any.
HasId(queue, id) == \E i \in 1 .. Len(queue) : queue[i].id = id
IndexOfId(queue, id) ==
    CHOOSE i \in 1 .. Len(queue) :
        /\ queue[i].id = id
        /\ \A j \in 1 .. (i - 1) : queue[j].id # id
\* A find whose test always passes returns the head of the queue.
FindHead(queue, id) == queue[1]
FindById(queue, id) == queue[IndexOfId(queue, id)]
Ids(queue) == { queue[i].id : i \in 1 .. Len(queue) }

\* -------------------------------------------------------- the program
\* enqueueCommand(tool, args): the id it returns, and the queue after push.
\* The id taken from the length of the queue instead of the counter.
enqueueCommandIdFromLength(queue, counter) == Len(queue) + 1
enqueueCommandId(queue, counter) == counter + 1
enqueueCommand(queue, counter, tool, args) ==
    Append(queue, [id |-> enqueueCommandId(queue, counter), tool |-> tool, args |-> args,
                   status |-> "pending", result |-> JNull])

\* The result of the filter not assigned back to commandQueue.
RemoveNothing(queue, id) == queue
\* Removal of the oldest record, whatever its id (commandQueue.shift()).
RemoveHead(queue, id) == Tail(queue)
\* Removal that moves the last record into the place of the removed one.
RemoveBySwap(queue, id) ==
    IF ~HasId(queue, id) THEN queue
    ELSE LET i == IndexOfId(queue, id)
             last == Len(queue)
         IN  IF i = last THEN SubSeq(queue, 1, last - 1)
             ELSE [SubSeq(queue, 1, last - 1) EXCEPT ![i] = queue[last]]
\* commandQueue.filter((c) => c.id !== id)
RemoveById(queue, id) == SelectSeq(queue, LAMBDA c : c.id # id)

\* A promise that takes the outcome of every resolve and reject.
SettleLast(promise, outcome) == outcome
\* A promise is settled by the first resolve or reject; later ones do nothing.
Settle(promise, outcome) == IF promise.state = "pending" THEN outcome ELSE promise
Fulfilled(v) == [state |-> "fulfilled", value |-> v, reason |-> Absent]
Rejected(msg) == [state |-> "rejected", value |-> JNull, reason |-> msg]

\* studioCall after `await waitForResult(id)`: what the call does with the
\* settled promise.
studioCallOutcome(call, promise) ==
    IF promise.state = "rejected"
    THEN [call EXCEPT !.pc = "threw", !.message = promise.reason]
    ELSE IF promise.state = "fulfilled"
    THEN IF TruthyValue(promise.value) /\ TruthyText(promise.value.error)
         THEN [call EXCEPT !.pc = "threw", !.message = promise.value.error]
         ELSE [call EXCEPT !.pc = "returned", !.value = promise.value]
    ELSE call

\* JSON.stringify(result, null, 2): undefined for undefined, "null" for
\* null, and for an object its fields that are there, one to a line.
JSONField(name, text, first) ==
    IF text = Absent THEN ""
    ELSE (IF first THEN "" ELSE ",") \o "\n  \"" \o name \o "\": \"" \o text \o "\""
JSONStringify(v) ==
    IF v.kind = "undefined" THEN Absent
    ELSE IF v.kind = "null" THEN "null"
    ELSE IF v.error = Absent /\ v.output = Absent /\ v.source = Absent THEN "{}"
    ELSE "{" \o JSONField("error", v.error, TRUE)
             \o JSONField("output", v.output, v.error = Absent)
             \o JSONField("source", v.source, v.error = Absent /\ v.output = Absent)
             \o "\n}"

NoSourceText == "No source found"
\* Reading a property of null or undefined throws a TypeError.
PropertyOfNothingMessage(v) ==
    "Cannot read properties of " \o v.kind \o " (reading 'source')"
\* result.source throws when result is null or undefined.
SourceReadThrows(v) == v.kind \in { "null", "undefined" }
\* The tool handler after `await studioCall(...)`: the response it returns,
\* or the error that leaves it.
\*   get_script: { text: result.source ?? "No source found" }
\*   the others: { text: JSON.stringify(result, null, 2) }
toolHandlerOutcome(call) ==
    IF call.pc = "threw"
    THEN [call EXCEPT !.reply = [isError |-> TRUE, text |-> call.message]]
    ELSE IF call.pc = "returned"
    THEN IF call.tool = "get_script"
         THEN IF SourceReadThrows(call.value)
              THEN [call EXCEPT !.reply =
                        [isError |-> TRUE, text |-> PropertyOfNothingMessage(call.value)]]
              ELSE [call EXCEPT !.reply =
                        [isError |-> FALSE,
                         text |-> IF call.value.source = Absent
                                  THEN NoSourceText ELSE call.value.source]]
         ELSE [call EXCEPT !.reply = [isError |-> FALSE, text |-> JSONStringify(call.value)]]
    ELSE call

\* The comparison turned around.
TimedOutFlipped(elapsed, timeoutMs) == elapsed < timeoutMs
\* if (Date.now() - start > timeoutMs)
TimedOut(elapsed, timeoutMs) == elapsed > timeoutMs

\* The callback with the reject of the timeout branch left out: the timer
\* is cleared and the record removed, and the promise stays pending.
waitForResultTickNoReject(call, queue, elapsed) ==
    IF ~HasId(queue, call.id)
    THEN [queue |-> queue,
          call |-> [call EXCEPT !.elapsed = elapsed, !.interval = FALSE,
                                !.promise = Settle(call.promise, Rejected(NotFoundMessage))]]
    ELSE
      LET cmd == FindById(queue, call.id)
          isDone == cmd.status = "done"
          timedOut == elapsed > call.timeoutMs
      IN  [queue |-> IF isDone \/ timedOut THEN RemoveById(queue, call.id) ELSE queue,
           call |-> [call EXCEPT !.elapsed = elapsed,
                                 !.interval = ~(isDone \/ timedOut),
                                 !.promise = IF isDone
                                             THEN Settle(call.promise, Fulfilled(cmd.result))
                                             ELSE call.promise]]
\* One firing of the interval callback of waitForResult(id, timeoutMs), with
\* `elapsed` the value of Date.now() - start: the waiter and the queue after it.
waitForResultTick(call, queue, elapsed) ==
    IF ~HasId(queue, call.id)
    THEN [queue |-> queue,
          call |-> [call EXCEPT !.elapsed = elapsed, !.interval = FALSE,
                                !.promise = Settle(call.promise, Rejected(NotFoundMessage))]]
    ELSE
      LET cmd == FindById(queue, call.id)
          isDone == cmd.status = "done"
          timedOut == TimedOut(elapsed, call.timeoutMs)
          p1 == IF isDone THEN Settle(call.promise, Fulfilled(cmd.result)) ELSE call.promise
          p2 == IF timedOut THEN Settle(p1, Rejected(TimeoutMessage)) ELSE p1
      IN  [queue |-> IF isDone \/ timedOut THEN RemoveById(queue, call.id) ELSE queue,
           call |-> [call EXCEPT !.elapsed = elapsed,
                                 !.interval = ~(isDone \/ timedOut),
                                 !.promise = p2]]

\* GET /studio/poll: the records it selects, and the queue after marking them.
PollPending(queue) == SelectSeq(queue, LAMBDA c : c.status = "pending")
\* Every record marked, not only the selected ones.
MarkAllSent(queue) == [i \in 1 .. Len(queue) |-> [queue[i] EXCEPT !.status = "sent"]]
\* The forEach that marks the selected records left out.
MarkSentForgotten(queue) == queue
MarkSent(queue) ==
    [i \in 1 .. Len(queue) |->
        IF queue[i].status = "pending" THEN [queue[i] EXCEPT !.status = "sent"] ELSE queue[i]]
\* res.json(pending) serialises the selected records after forEach has marked them.
PollResponse(queue) ==
    LET pending == PollPending(queue)
    IN  [i \in 1 .. Len(pending) |-> [pending[i] EXCEPT !.status = "sent"]]

\* POST /studio/result: cmd.result = error ? { error } : result
CompletionResult(body) ==
    IF TruthyText(body.error) THEN JObject(body.error, Absent, Absent) ELSE body.result
\* A completion that falls back on the head of the queue when the id is not found.
ResolveCommandOrHead(queue, id, body) ==
    IF queue = << >> THEN queue
    ELSE [queue EXCEPT ![IF HasId(queue, id) THEN IndexOfId(queue, id) ELSE 1] =
            [@ EXCEPT !.status = "done", !.result = CompletionResult(body)]]
ResolveCommand(queue, id, body) ==
    IF HasId(queue, id)
    THEN [queue EXCEPT ![IndexOfId(queue, id)] =
            [@ EXCEPT !.status = "done", !.result = CompletionResult(body)]]
    ELSE queue
\* res.json({ ok: true })
ResultResponse == [route |-> "result", list |-> << >>]

\* GET /: res.json({ status: ..., queue: commandQueue.length })
StatusResponse(queue) == [route |-> "status", list |-> << >>, queue |-> Len(queue)]

\* ------------------------------------------------------------ actions
Init ==
    /\ commandQueue = << >>
    /\ commandIdCounter = 0
    /\ calls = [c \in AllCalls |-> IdleCall]
    /\ httpResponse = NoResponse
    /\ pollCount = [i \in AllIds |-> 0]
    /\ firstCompletion = [i \in AllIds |-> NoBody]

\* A tool handler calls studioCall(tool, args): enqueueCommand, then
\* waitForResult starts the interval timer and the call is suspended.
StudioCall(c, tool, args, timeoutMs) ==
    /\ calls[c].pc = "idle"
    /\ commandQueue' = enqueueCommand(commandQueue, commandIdCounter, tool, args)
    /\ commandIdCounter' = enqueueCommandId(commandQueue, commandIdCounter)
    /\ calls' = [calls EXCEPT ![c] =
            [IdleCall EXCEPT !.pc = "waiting",
                             !.id = enqueueCommandId(commandQueue, commandIdCounter),
                             !.tool = tool, !.args = args, !.timeoutMs = timeoutMs,
                             !.elapsed = 0, !.interval = TRUE]]
    /\ httpResponse' = NoResponse
    /\ UNCHANGED << pollCount, firstCompletion >>

\* A request for a tool arrives with raw arguments: the handler runs, and
\* calls studioCall, only when the arguments parse.
ToolRequest(c, tool, raw, timeoutMs) ==
    IF ValidArgs(tool, raw)
    THEN StudioCall(c, tool, ParseArgs(tool, raw), timeoutMs)
    ELSE /\ calls[c].pc = "idle"
         /\ calls' = [calls EXCEPT ![c] =
                 [IdleCall EXCEPT !.pc = "invalid", !.tool = tool, !.args = raw]]
         /\ httpResponse' = NoResponse
         /\ UNCHANGED << commandQueue, commandIdCounter, pollCount, firstCompletion >>

\* The interval timer of call c fires; studioCall, and the tool handler that
\* awaits it, resume in the same turn of the event loop when the promise has
\* been settled.
IntervalTick(c) ==
    /\ calls[c].interval
    /\ LET after == waitForResultTick(calls[c], commandQueue, calls[c].elapsed + IntervalMs)
       IN  /\ commandQueue' = after.queue
           /\ calls' = [calls EXCEPT ![c] =
                   toolHandlerOutcome(studioCallOutcome(after.call, after.call.promise))]
    /\ httpResponse' = NoResponse
    /\ UNCHANGED << commandIdCounter, pollCount, firstCompletion >>

\* The plugin requests GET /studio/poll.
GetPoll ==
    /\ commandQueue' = MarkSent(commandQueue)
    /\ httpResponse' = [route |-> "poll", list |-> PollResponse(commandQueue)]
    /\ UNCHANGED << commandIdCounter, calls, firstCompletion >>

StudioPoll ==
    /\ GetPoll
    /\ UNCHANGED pollCount

\* The same request, with the history of the polls that returned each id kept.
StudioPollH ==
    /\ GetPoll
    /\ pollCount' = [i \in AllIds |->
            IF i \in Ids(PollResponse(commandQueue)) THEN pollCount[i] + 1 ELSE pollCount[i]]

\* The plugin requests POST /studio/result with { id, result, error }.
PostResult(id, body) ==
    /\ commandQueue' = ResolveCommand(commandQueue, id, body)
    /\ httpResponse' = ResultResponse
    /\ UNCHANGED << commandIdCounter, calls, pollCount >>

StudioResult(id, body) ==
    /\ PostResult(id, body)
    /\ UNCHANGED firstCompletion

\* The same request, with the history of first completions kept.
StudioResultH(id, body) ==
    /\ PostResult(id, body)
    /\ firstCompletion' =
            IF HasId(commandQueue, id) /\ firstCompletion[id] = NoBody
            THEN [firstCompletion EXCEPT ![id] = body]
            ELSE firstCompletion

\* The plugin, or anyone, requests GET /.
StudioStatus ==
    /\ httpResponse' = StatusResponse(commandQueue)
    /\ UNCHANGED << commandQueue, commandIdCounter, calls, pollCount, firstCompletion >>

\* The relay under concurrent calls, polls and completions.
Next ==
    \/ \E c \in Calls, tool \in RelayTools :
          \E args \in ArgsOf(tool) : StudioCall(c, tool, args, RelayTimeoutMs)
    \/ \E c \in Calls : IntervalTick(c)
    \/ StudioPollH
    \/ \E id \in PostIds, body \in RelayBodies : StudioResult(id, body)

Spec == Init /\ [][Next]_vars

\* Spec with the history variable firstCompletion kept.
NextH ==
    \/ \E c \in Calls, tool \in RelayTools :
          \E args \in ArgsOf(tool) : StudioCall(c, tool, args, RelayTimeoutMs)
    \/ \E c \in Calls : IntervalTick(c)
    \/ StudioPollH
    \/ \E id \in PostIds, body \in RelayBodies : StudioResultH(id, body)

SpecH == Init /\ [][NextH]_vars

\* SpecH with both tools and every body of BodyChoices.
NextPayload ==
    \/ \E c \in Calls, tool \in Tools :
          \E args \in ArgsOf(tool) : StudioCall(c, tool, args, RelayTimeoutMs)
    \/ \E c \in Calls : IntervalTick(c)
    \/ StudioPollH
    \/ \E id \in PostIds, body \in BodyChoices : StudioResultH(id, body)

SpecPayload == Init /\ [][NextPayload]_vars

\* The server as its clients see it: tool requests with raw arguments, the
\* plugin endpoints and the status endpoint.
NextServer ==
    \/ \E c \in Calls, tool \in Tools :
          \E raw \in RawArgsOf(tool) : ToolRequest(c, tool, raw, RelayTimeoutMs)
    \/ \E c \in Calls : IntervalTick(c)
    \/ StudioPoll
    \/ \E id \in PostIds, body \in RelayBodies : StudioResult(id, body)
    \/ StudioStatus

SpecServer == Init /\ [][NextServer]_vars

\* Calls of both tools, completed with the bodies of ScriptBodies.
NextScript ==
    \/ \E c \in Calls, tool \in Tools :
          \E args \in ArgsOf(tool) : StudioCall(c, tool, args, RelayTimeoutMs)
    \/ \E c \in Calls : IntervalTick(c)
    \/ StudioPoll
    \/ \E id \in PostIds, body \in ScriptBodies : StudioResult(id, body)

SpecScript == Init /\ [][NextScript]_vars

\* One call, on every timeout budget of TimeoutChoices.
NextTimeout ==
    \/ \E tool \in Tools, timeoutMs \in TimeoutChoices :
          \E args \in ArgsOf(tool) : StudioCall(1, tool, args, timeoutMs)
    \/ IntervalTick(1)
    \/ StudioPollH
    \/ \E id \in PostIds, body \in BodyChoices : StudioResult(id, body)

SpecTimeout == Init /\ [][NextTimeout]_vars

\* SpecTimeout with the started interval timer firing again and again: the
\* event loop runs the callback of a timer every IntervalMs until the timer
\* is cleared.  Nothing is assumed of the plugin.
SpecFair == Init /\ [][NextTimeout]_vars /\ WF_vars(IntervalTick(1))

\* MaxQueueCalls short calls, for the order and the ids of the queue.
NextQueue ==
    \/ \E c \in QueueCalls, tool \in RelayTools :
          \E args \in ArgsOf(tool) : StudioCall(c, tool, args, QueueTimeoutMs)
    \/ \E c \in QueueCalls : IntervalTick(c)
    \/ StudioPoll
    \/ \E id \in QueuePostIds, body \in RelayBodies : StudioResult(id, body)

SpecQueue == Init /\ [][NextQueue]_vars

\* =====================================================================
\* Properties.  They read the state directly and do not go through the
\* operators above.
\* =====================================================================
Live(id) == \E i \in 1 .. Len(commandQueue) : commandQueue[i].id = id
Started(call) == call.pc # "idle"
Settled(call) == call.pc \in { "returned", "threw" }
\* The waiter saw status "done" and resolved the promise with the result.
ObservedDone(call) == call.promise.state = "fulfilled"
FailedWithTimeout(call) == call.pc = "threw" /\ call.message = TimeoutMessage
\* What a completion body carries: an error description, or a result payload.
CarriesError(body) == body # NoBody /\ body.error # Absent
CarriesPayload(body) == body # NoBody /\ body.error = Absent /\ body.result # JUndefined
OutputPayload == JObject(Absent, "2", Absent)

\* ---------------------------------------------------------------- C1
\* C1 (as claimed): once a completion has resolved a live record with an
\* outcome (an error description, or a result payload that has no error
\* field of its own), the call awaiting that id ends with that outcome: it
\* returns the payload, or fails with the description; and the record is
\* then absent from the queue.  firstCompletion holds the first completion
\* that found the record live.
C1_ResolvedOutcomeReturned ==
    \A c \in AllCalls :
        (/\ Settled(calls[c])
         /\ \/ CarriesError(firstCompletion[calls[c].id])
            \/ /\ CarriesPayload(firstCompletion[calls[c].id])
               /\ firstCompletion[calls[c].id].result.error = Absent)
        => /\ ~Live(calls[c].id)
           /\ IF CarriesError(firstCompletion[calls[c].id])
              THEN /\ calls[c].pc = "threw"
                   /\ calls[c].message = firstCompletion[calls[c].id].error
              ELSE /\ calls[c].pc = "returned"
                   /\ calls[c].value = firstCompletion[calls[c].id].result

\* ---------------------------------------------------------------- C2
\* C2: a poll returns every record that is pending when it is handled, and
\* only those (so the empty list when none is pending); no record it
\* returns was returned by an earlier poll, and none is listed twice.
C2_PollStep ==
    /\ \A i \in 1 .. Len(commandQueue) :
          commandQueue[i].status = "pending"
            => \E j \in 1 .. Len(httpResponse'.list) :
                  httpResponse'.list[j].id = commandQueue[i].id
    /\ \A j \in 1 .. Len(httpResponse'.list) :
          /\ \E i \in 1 .. Len(commandQueue) :
                /\ commandQueue[i].id = httpResponse'.list[j].id
                /\ commandQueue[i].status = "pending"
          /\ pollCount[httpResponse'.list[j].id] = 0
          /\ pollCount'[httpResponse'.list[j].id] = 1
          /\ \A k \in 1 .. Len(httpResponse'.list) :
                k # j => httpResponse'.list[k].id # httpResponse'.list[j].id
    /\ (\A i \in 1 .. Len(commandQueue) : commandQueue[i].status # "pending")
          => httpResponse'.list = << >>
C2_PollClaimsEachPendingOnce == [][StudioPollH => C2_PollStep]_vars

\* A second poll has returned record 2 alone, record 1 having been returned
\* by the first poll and being still in the queue.
C2_Witness ==
    /\ httpResponse.route = "poll"
    /\ Len(httpResponse.list) = 1
    /\ httpResponse.list[1].id = 2
    /\ Live(1)
    /\ pollCount[1] = 1
    /\ pollCount[2] = 1

\* ---------------------------------------------------------------- C3
\* C3: a call that fails with the Timeout error does so with at least its
\* timeout T and at most T plus one polling interval elapsed since it
\* started waiting, and its record is then absent from the queue; and no
\* call is still waiting with more than T elapsed, resolved or not.
C3_TimeoutWithinOneInterval ==
    \A c \in AllCalls :
        /\ FailedWithTimeout(calls[c])
              => /\ calls[c].elapsed >= calls[c].timeoutMs
                 /\ calls[c].elapsed <= calls[c].timeoutMs + IntervalMs
                 /\ ~Live(calls[c].id)
                 /\ ~calls[c].interval
        /\ calls[c].pc = "waiting" => calls[c].elapsed <= calls[c].timeoutMs

\* A call on the default budget has timed out, its record sent but never resolved.
C3_Witness ==
    \E c \in AllCalls :
        /\ FailedWithTimeout(calls[c])
        /\ calls[c].timeoutMs = DefaultTimeoutMs
        /\ calls[c].elapsed = DefaultTimeoutMs + IntervalMs
        /\ pollCount[calls[c].id] = 1
        /\ commandQueue = << >>

\* ---------------------------------------------------------------- C4
\* C4: the id an enqueue returns is greater than every id returned before
\* it, those of removed records included, and is the id of the record it
\* appends; the queue never holds two records with one id.
C4_EnqueueStep ==
    \A c \in AllCalls :
        (~Started(calls[c]) /\ Started(calls'[c]))
        => /\ \A d \in AllCalls : Started(calls[d]) => calls[d].id < calls'[c].id
           /\ \A i \in 1 .. Len(commandQueue) : commandQueue[i].id < calls'[c].id
           /\ Len(commandQueue') = Len(commandQueue) + 1
           /\ commandQueue'[Len(commandQueue')].id = calls'[c].id
           /\ \A i, j \in 1 .. Len(commandQueue') :
                 i # j => commandQueue'[i].id # commandQueue'[j].id
C4_IdsIncreaseAndNeverRepeat == [][C4_EnqueueStep]_vars

\* Id 3 has been issued with record 1 removed and record 2 still in the queue.
C4_Witness ==
    /\ commandIdCounter = 3
    /\ ~Live(1)
    /\ Live(2)
    /\ Live(3)
    /\ \E c \in AllCalls : calls[c].id = 1 /\ Settled(calls[c])

\* ---------------------------------------------------------------- C5
\* C5: a completion for an id with no record in the queue is answered
\* { ok: true } and changes neither the queue, nor the id counter, nor any
\* call; and a call that has ended keeps its outcome in every step.
C5_Step ==
    /\ httpResponse'.route = "result"
          => \/ /\ commandQueue' = commandQueue
                /\ commandIdCounter' = commandIdCounter
                /\ calls' = calls
                /\ httpResponse' = [route |-> "result", list |-> << >>]
             \/ ~ \E id \in PostIds :
                     /\ ~Live(id)
                     /\ \E body \in BodyChoices : StudioResult(id, body)
    /\ \A c \in AllCalls : Settled(calls[c]) => calls'[c] = calls[c]
C5_UnknownIdIsNoOp == [][C5_Step]_vars

\* A completion has just been acknowledged with the queue empty and a call
\* timed out: whichever id it named, that id had no record.
C5_Witness ==
    /\ httpResponse.route = "result"
    /\ commandQueue = << >>
    /\ commandIdCounter = 2
    /\ \E c \in AllCalls : FailedWithTimeout(calls[c])
\* ---------------------------------------------------------------- C6
\* C6: a completion changes no call and no record but the one with the id
\* it names; and a call that receives a result receives the result held by
\* the record with the id this call enqueued, in a step that changes no
\* other call and removes no other record.
C6_Step ==
    /\ httpResponse'.route = "result"
          => \A id \in PostIds :
                (\E body \in BodyChoices : StudioResult(id, body))
                  => /\ calls' = calls
                     /\ Len(commandQueue') = Len(commandQueue)
                     /\ \A i \in 1 .. Len(commandQueue) :
                           commandQueue[i].id # id => commandQueue'[i] = commandQueue[i]
    /\ \A c \in AllCalls :
          (calls[c].pc = "waiting" /\ ObservedDone(calls'[c]))
            => /\ \E i \in 1 .. Len(commandQueue) :
                     /\ commandQueue[i].id = calls[c].id
                     /\ commandQueue[i].status = "done"
                     /\ calls'[c].promise.value = commandQueue[i].result
               /\ \A d \in AllCalls : d # c => calls'[d] = calls[d]
               /\ \A i \in 1 .. Len(commandQueue) :
                     commandQueue[i].id # calls[c].id
                       => \E j \in 1 .. Len(commandQueue') : commandQueue'[j] = commandQueue[i]
C6_OutcomeRoutedToOwnCall == [][C6_Step]_vars

\* The call that enqueued id 2 has failed with the error posted for id 2,
\* while the call that enqueued id 1 still waits, its record now resolved
\* with the payload posted for id 1.
C6_Witness ==
    \E c, d \in AllCalls :
        /\ calls[c].id = 1
        /\ calls[d].id = 2
        /\ calls[d].pc = "threw"
        /\ calls[d].message = "boom"
        /\ calls[c].pc = "waiting"
        /\ \E i \in 1 .. Len(commandQueue) :
              /\ commandQueue[i].id = 1
              /\ commandQueue[i].status = "done"
              /\ commandQueue[i].result = OutputPayload

\* ---------------------------------------------------------------- C7
\* C7: the records a poll returns are in ascending order of id, which is
\* the order in which they were enqueued.
C7_PollInEnqueueOrder ==
    httpResponse.route = "poll"
        => \A i, j \in 1 .. Len(httpResponse.list) :
              i < j => httpResponse.list[i].id < httpResponse.list[j].id

\* A poll has returned records 2 and 3, record 1 having been removed.
C7_Witness ==
    /\ httpResponse.route = "poll"
    /\ Len(httpResponse.list) = 2
    /\ httpResponse.list[1].id = 2
    /\ httpResponse.list[2].id = 3
    /\ ~Live(1)

\* ---------------------------------------------------------------- C8
\* C8 (as claimed): when a completion carrying an error description has
\* found the record live, the awaiting call fails and its message is that
\* description.
C8_ErrorDescriptionSurfaced ==
    \A c \in AllCalls :
        (Settled(calls[c]) /\ CarriesError(firstCompletion[calls[c].id]))
        => /\ calls[c].pc = "threw"
           /\ calls[c].message = firstCompletion[calls[c].id].error

\* ---------------------------------------------------------------- C9
\* C9 (as claimed): when a completion carrying a result payload and no
\* error has found the record live, the awaiting call returns that payload,
\* whatever the payload.
C9_PayloadReturnedVerbatim ==
    \A c \in AllCalls :
        (Settled(calls[c]) /\ CarriesPayload(firstCompletion[calls[c].id]))
        => /\ calls[c].pc = "returned"
           /\ calls[c].value = firstCompletion[calls[c].id].result

\* --------------------------------------------------------------- C10
\* C10 (as claimed): in every step a record keeps its status or moves from
\* pending to sent or from sent to done; and a call sees its record done
\* only if a poll has returned that record.
C10_Step ==
    /\ \A i \in 1 .. Len(commandQueue), j \in 1 .. Len(commandQueue') :
          commandQueue[i].id = commandQueue'[j].id
            => << commandQueue[i].status, commandQueue'[j].status >> \in
                  { << "pending", "pending" >>, << "pending", "sent" >>,
                    << "sent", "sent" >>, << "sent", "done" >>, << "done", "done" >> }
    /\ \A c \in AllCalls :
          (calls[c].pc = "waiting" /\ ObservedDone(calls'[c]))
            => pollCount[calls[c].id] >= 1
C10_StatusOnlyMovesForward == [][C10_Step]_vars


\* --------------------------------------------------------------- C11
\* C11: a tool request whose arguments fail validation (a required text
\* left out, a context outside the three allowed) starts no command: in the
\* step that takes the request the queue and the id counter do not change
\* and the request is refused without an id; and no record in the queue
\* carries such arguments.
C11_FailsValidation(tool, args) ==
    \/ tool = "run_script" /\ args.code = "-"
    \/ tool = "run_script" /\ args.context \notin { "-", "Server", "Client", "Plugin" }
    \/ tool = "get_script" /\ args.path = "-"
C11_Step ==
    /\ \A c \in AllCalls :
          (/\ calls[c].pc = "idle"
           /\ calls'[c].pc # "idle"
           /\ C11_FailsValidation(calls'[c].tool, calls'[c].args))
            => /\ commandQueue' = commandQueue
               /\ commandIdCounter' = commandIdCounter
               /\ calls'[c].pc = "invalid"
               /\ calls'[c].id = 0
               /\ ~calls'[c].interval
    /\ \A i \in 1 .. Len(commandQueue') :
          ~C11_FailsValidation(commandQueue'[i].tool, commandQueue'[i].args)
C11_InvalidRequestNeverEnqueued == [][C11_Step]_vars

\* A request without code has been refused while an earlier call waits: the
\* queue holds the record of that call alone and one id has been issued.
C11_Witness ==
    \E c, d \in AllCalls :
        /\ calls[c].pc = "invalid"
        /\ calls[c].tool = "run_script"
        /\ calls[c].args.code = "-"
        /\ calls[d].pc = "waiting"
        /\ Len(commandQueue) = 1
        /\ commandIdCounter = 1

\* --------------------------------------------------------------- C12
\* C12 (as claimed): when the waiter of a get_script call has read a
\* successful completion (a result carrying no error description), the
\* call answers with the text "No source found" if the payload has no
\* source field, and with the source text if it has one.
C12_SourceOrPlaceholder ==
    \A c \in AllCalls :
        (/\ calls[c].tool = "get_script"
         /\ calls[c].promise.state = "fulfilled"
         /\ calls[c].promise.value.error = "-")
        => /\ ~calls[c].reply.isError
           /\ calls[c].reply.text =
                 IF calls[c].promise.value.source = "-"
                 THEN "No source found"
                 ELSE calls[c].promise.value.source

\* --------------------------------------------------------------- C13
\* C13: with every started timer firing again and again, a call that waits
\* eventually ends (it returns, or fails with an execution error or with
\* Timeout) with its record out of the queue, whether or not the plugin
\* ever polls or posts; and at no time is the record of an ended call in
\* the queue.
C13_EveryCallEndsAndLeavesNoRecord ==
    /\ \A c \in AllCalls :
          (calls[c].pc = "waiting")
            ~> (/\ calls[c].pc \in { "returned", "threw" }
                /\ ~calls[c].interval
                /\ ~Live(calls[c].id))
    /\ [](\A c \in AllCalls :
            calls[c].pc \in { "returned", "threw" } => ~Live(calls[c].id))

\* A call on the default budget has ended by Timeout after 151 firings of
\* its timer, the plugin having never polled, and the queue is empty.
C13_Witness ==
    \E c \in AllCalls :
        /\ calls[c].pc = "threw"
        /\ calls[c].message = TimeoutMessage
        /\ calls[c].elapsed = 151 * IntervalMs
        /\ pollCount[calls[c].id] = 0
        /\ ~Live(calls[c].id)

\* --------------------------------------------------------------- C14
\* C14 (as claimed): the result the waiter of a call reads from its record
\* is the outcome of the first completion posted for the id while the
\* record was in the queue (its error description, or else its result
\* payload); a later completion for the id does not change it.
C14_FirstCompletionWins ==
    \A c \in AllCalls :
        (/\ calls[c].promise.state = "fulfilled"
         /\ firstCompletion[calls[c].id].error # "<none posted>")
        => calls[c].promise.value =
              IF firstCompletion[calls[c].id].error \notin { "-", "" }
              THEN [kind |-> "object", error |-> firstCompletion[calls[c].id].error,
                    output |-> "-", source |-> "-"]
              ELSE firstCompletion[calls[c].id].result

\* --------------------------------------------------------------- C15
\* C15: no call ever fails with "Command not found", by its promise or by
\* its message; and a record leaves the queue only in a step in which the
\* waiter of the call that enqueued it stops its timer, no other call
\* changing in that step.
C15_Step ==
    /\ \A c \in AllCalls :
          /\ calls'[c].promise.reason # "Command not found"
          /\ calls'[c].message # "Command not found"
    /\ \A i \in 1 .. Len(commandQueue) :
          (\A j \in 1 .. Len(commandQueue') : commandQueue'[j].id # commandQueue[i].id)
            => \E c \in AllCalls :
                  /\ calls[c].id = commandQueue[i].id
                  /\ calls[c].interval
                  /\ ~calls'[c].interval
                  /\ calls'[c].pc \in { "returned", "threw" }
                  /\ \A d \in AllCalls : d # c => calls'[d] = calls[d]
C15_NeverCommandNotFound == [][C15_Step]_vars

\* The call that enqueued id 2 has returned and its record is gone, while
\* the call that enqueued id 1 has been through a check of its own and
\* still waits, its record in the queue.
C15_Witness ==
    \E c, d \in AllCalls :
        /\ calls[c].id = 2
        /\ calls[c].pc = "returned"
        /\ ~Live(2)
        /\ calls[d].id = 1
        /\ calls[d].pc = "waiting"
        /\ calls[d].elapsed = IntervalMs
        /\ Live(1)

\* --------------------------------------------------------------- C16
\* C16: each operation changes only what it owns.  An enqueue appends one
\* pending record without a result and leaves the records before it as
\* they are.  A poll keeps the length of the queue and every id, tool, args
\* and result, and changes a status only from pending to sent.  A
\* completion keeps the length and every id, tool and args, changes at most
\* one record, the one with the id it names, and leaves it done.  A firing
\* of a waiter's timer leaves the queue as it is or takes out the record
\* with the id of its call, and nothing else.  Polls and completions change
\* no call; an enqueue and a timer change only their own call.
C16_Step ==
    /\ \A c \in AllCalls :
          (calls[c].pc = "idle" /\ calls'[c].pc = "waiting")
            => /\ Len(commandQueue') = Len(commandQueue) + 1
               /\ \A i \in 1 .. Len(commandQueue) : commandQueue'[i] = commandQueue[i]
               /\ commandQueue'[Len(commandQueue')].status = "pending"
               /\ commandQueue'[Len(commandQueue')].result.kind = "null"
               /\ \A d \in AllCalls : d # c => calls'[d] = calls[d]
    /\ httpResponse'.route = "poll"
          => /\ calls' = calls
             /\ Len(commandQueue') = Len(commandQueue)
             /\ \A i \in 1 .. Len(commandQueue) :
                   /\ commandQueue'[i].id = commandQueue[i].id
                   /\ commandQueue'[i].tool = commandQueue[i].tool
                   /\ commandQueue'[i].args = commandQueue[i].args
                   /\ commandQueue'[i].result = commandQueue[i].result
                   /\ \/ commandQueue'[i].status = commandQueue[i].status
                      \/ /\ commandQueue[i].status = "pending"
                         /\ commandQueue'[i].status = "sent"
    /\ httpResponse'.route = "result"
          => /\ calls' = calls
             /\ Len(commandQueue') = Len(commandQueue)
             /\ \A i \in 1 .. Len(commandQueue) :
                   /\ commandQueue'[i].id = commandQueue[i].id
                   /\ commandQueue'[i].tool = commandQueue[i].tool
                   /\ commandQueue'[i].args = commandQueue[i].args
                   /\ commandQueue'[i] # commandQueue[i]
                         => /\ commandQueue'[i].status = "done"
                            /\ \A j \in 1 .. Len(commandQueue) :
                                  j # i => commandQueue'[j] = commandQueue[j]
                            /\ \A id \in QueuePostIds :
                                  (\E body \in BodyChoices : StudioResult(id, body))
                                    => commandQueue[i].id = id
    /\ \A c \in AllCalls :
          (calls[c].interval /\ calls'[c] # calls[c])
            => /\ \/ commandQueue' = commandQueue
                  \/ /\ Len(commandQueue') = Len(commandQueue) - 1
                     /\ commandQueue' =
                           SelectSeq(commandQueue, LAMBDA r : r.id # calls[c].id)
               /\ \A d \in AllCalls : d # c => calls'[d] = calls[d]
C16_EachOperationOwnsItsEffect == [][C16_Step]_vars

\* A poll has just returned the one pending record and marked it sent,
\* next to a record that is done and was left as it was, an earlier record
\* having been taken out by its waiter.
C16_Witness ==
    /\ httpResponse.route = "poll"
    /\ Len(httpResponse.list) = 1
    /\ Len(commandQueue) = 2
    /\ commandQueue[1].status = "done"
    /\ commandQueue[2].status = "sent"
    /\ commandQueue[2].id = httpResponse.list[1].id
    /\ \E c \in AllCalls : calls[c].id = 1 /\ FailedWithTimeout(calls[c]) /\ ~Live(1)

\* --------------------------------------------------------------- C17
\* C17: when the timer of a waiting call fires with its record done and
\* more than the timeout elapsed, the promise is fulfilled with the result
\* of the record and not rejected, the call ends with that result (it
\* returns it, or fails with the error the result carries) and not with
\* Timeout, the timer is stopped and the record is out of the queue; and a
\* settled promise and an ended call never change again.
C17_Step ==
    /\ \A c \in AllCalls, i \in 1 .. Len(commandQueue) :
          (/\ calls[c].pc = "waiting"
           /\ calls'[c] # calls[c]
           /\ calls'[c].elapsed > calls[c].timeoutMs
           /\ commandQueue[i].id = calls[c].id
           /\ commandQueue[i].status = "done")
            => /\ calls'[c].promise =
                     [state |-> "fulfilled", value |-> commandQueue[i].result, reason |-> "-"]
               /\ ~calls'[c].interval
               /\ \A j \in 1 .. Len(commandQueue') : commandQueue'[j].id # calls[c].id
               /\ calls'[c].message # "Timeout - Is the Roblox Studio plugin running?"
               /\ \/ /\ calls'[c].pc = "returned"
                     /\ calls'[c].value = commandQueue[i].result
                     /\ calls'[c].message = "-"
                  \/ /\ calls'[c].pc = "threw"
                     /\ commandQueue[i].result.kind = "object"
                     /\ calls'[c].message = commandQueue[i].result.error
    /\ \A c \in AllCalls :
          /\ calls[c].promise.state # "pending" => calls'[c].promise = calls[c].promise
          /\ calls[c].pc \in { "returned", "threw" } => calls'[c] = calls[c]
C17_DoneBeatsTimeoutOnSameTick == [][C17_Step]_vars

\* A call has returned the payload posted for it at a check made with more
\* than its timeout elapsed.
C17_Witness ==
    \E c \in AllCalls :
        /\ calls[c].pc = "returned"
        /\ calls[c].value = OutputPayload
        /\ calls[c].elapsed > calls[c].timeoutMs
        /\ calls[c].timeoutMs = IntervalMs
        /\ ~Live(calls[c].id)

\* --------------------------------------------------------------- C18
\* C18: in every state the queue holds exactly the records of the calls
\* that wait: each record has the id of exactly one waiting call, whose
\* timer runs; each waiting call has a running timer and exactly one
\* record; no other call has a running timer.  So the length of the queue
\* is the number of waiting calls, the queue is empty when no call waits,
\* and the size GET / has just reported is that number.
C18_WaitingCalls == { c \in AllCalls : calls[c].pc = "waiting" }
====
